---- MODULE Spec2Model ----
(***************************************************************************)
(* Model of the generative-AI service layer of the research explorer:      *)
(* callWithRetry (the resilient invoker), translateText and its cache,     *)
(* the analysis and trend calls, and the /api/trend route; of the two      *)
(* components that call it, App and GlobalSelectionTranslator; and of the  *)
(* payload shaping, mode choice and normalisation of one analysis call.    *)
(*                                                                         *)
(* Texts are sequences of characters; error messages are sequences of      *)
(* fragments, and String.includes(marker) holds of a message when one of   *)
(* its fragments is the marker.                                            *)
(***************************************************************************)
EXTENDS Integers, Sequences, FiniteSets, TLC

VARIABLES
    apiKey,            \* process.env.API_KEY is set
    translationCache,  \* Record<string, string>: cacheKey -> translation
    pc,                \* per caller: "idle", "inflight", "waiting", "resolved", "rejected"
    op,                \* per caller: the call being served
    retries,           \* per caller: callWithRetry's retries parameter of the current frame
    delay,             \* per caller: callWithRetry's delay parameter of the current frame
    calls,             \* per caller: invocations of fn so far (one external call each)
    waits,             \* per caller: the backoff delays waited so far, in order
    result,            \* per caller: the value resolved or the error rejected
    lastErr,           \* per caller: the error raised by the latest failed attempt
    lastReply,         \* per caller: the latest reply of the external call
    app,               \* App: the component's state and its requests in flight
    tip,               \* GlobalSelectionTranslator: its state, timers and lookups
    run                \* one activation of analyzePapersWithGemini: its locals

\* the service layer's state
serviceVars == <<apiKey, translationCache, pc, op, retries, delay, calls, waits,
                 result, lastErr, lastReply>>
\* the state of the components that call the service layer
clientVars == <<app, tip, run>>

vars == <<serviceVars, clientVars>>

---------------------------------------------------------------------------
(* Bounds *)

\* concurrent callers of the service layer
NumCallers == 2
\* largest retry budget the test harness hands to callWithRetry
MaxRetries == 3

Callers == 1..NumCallers
\* the caller that runs the single-flight operations (the mock harness, the
\* analysis panel, the trend route); translations come from every caller
Main == CHOOSE p \in Callers : \A q \in Callers : p <= q

---------------------------------------------------------------------------
(* Errors *)

NoErr == [message |-> <<>>, json |-> <<>>, attempt |-> 0]

\* an error object: its message, its JSON.stringify text, and the attempt that
\* raised it (the object's identity; 0 for one made by the service layer itself)
Err(message, json, attempt) ==
    [message |-> message, json |-> json, attempt |-> attempt]

\* what the external call or a mock operation can fail with
ErrorShapes ==
    { [message |-> <<"fetch failed">>, json |-> <<"{}">>],
      [message |-> <<"Quota">>, json |-> <<"{}">>],
      [message |-> <<>>, json |-> <<"{", "code", "503", "}">>],
      [message |-> <<"got", "429">>, json |-> <<"{}">>],
      [message |-> <<"RESOURCE_EXHAUSTED">>, json |-> <<"{}">>],
      [message |-> <<"quota", "exceeded">>, json |-> <<"{}">>],
      [message |-> <<>>, json |-> <<"{", "code", "429", "}">>],
      [message |-> <<"Rpc failed">>, json |-> <<"{}">>],
      [message |-> <<"error code: 6">>, json |-> <<"{}">>],
      [message |-> <<"XHR">>, json |-> <<"{}">>],
      [message |-> <<"XHR", "429">>, json |-> <<"{}">>] }

Includes(text, marker) == \E i \in DOMAIN text : text[i] = marker

\* err.message || JSON.stringify(err)
ErrorMessage(err) == IF err.message # <<>> THEN err.message ELSE err.json

\* a quota test that only looks for the status code
HasQuotaMarkerCodeOnly(text) == Includes(text, "429")
HasQuotaMarker(text) ==
    \/ Includes(text, "429")
    \/ Includes(text, "RESOURCE_EXHAUSTED")
    \/ Includes(text, "quota")

\* a payload test that misses the XHR marker
HasPayloadMarkerNoXHR(text) ==
    \/ Includes(text, "Rpc failed")
    \/ Includes(text, "error code: 6")
HasPayloadMarker(text) ==
    \/ Includes(text, "Rpc failed")
    \/ Includes(text, "error code: 6")
    \/ Includes(text, "XHR")

QuotaExceeded ==
    Err(<<"API Quota Exceeded. The system is momentarily rate-limited by Google. Please wait a minute or analyze fewer papers.">>,
        <<"{}">>, 0)

PayloadTooLarge ==
    Err(<<"Network Payload Too Large. Please reduce 'Max Papers' to < 100, or the request size exceeded browser limits.">>,
        <<"{}">>, 0)

---------------------------------------------------------------------------
(* callWithRetry *)

DefaultRetries == 3
DefaultDelay == 2000

NextRetries(r) == r - 1

\* a backoff that forgets to double
NextDelayConstant(d) == d
NextDelay(d) == d * 2

\* a budget check that gives up one retry early
ClassifyOffByOne(err, r) ==
    LET errorMessage == ErrorMessage(err) IN
    IF \/ Includes(errorMessage, "429")
       \/ Includes(errorMessage, "RESOURCE_EXHAUSTED")
       \/ Includes(errorMessage, "quota")
    THEN "quota"
    ELSE IF \/ Includes(errorMessage, "Rpc failed")
            \/ Includes(errorMessage, "error code: 6")
            \/ Includes(errorMessage, "XHR")
    THEN "payload"
    ELSE IF r <= 1 THEN "throw"
    ELSE "retry"

\* the catch block: what becomes of a frame whose fn() threw err
\*   "quota" / "payload": throw the fatal condition;  "throw": rethrow err;
\*   "retry": wait delay, then recurse
Classify(err, r) ==
    LET errorMessage == ErrorMessage(err) IN
    IF HasQuotaMarker(errorMessage) THEN "quota"
    ELSE IF HasPayloadMarker(errorMessage) THEN "payload"
    ELSE IF r <= 0 THEN "throw"
    ELSE "retry"

\* the error the frame rejects with, for a fatal classification
Rethrown(err, class) ==
    CASE class = "quota" -> QuotaExceeded
      [] class = "payload" -> PayloadTooLarge
      [] OTHER -> err

\* a reply of the external call: response.text is undefined (has = FALSE) or a
\* string; NoReply stands for "no reply received yet"
Reply(has, text) == [seen |-> TRUE, has |-> has, text |-> text]
NoReply == [seen |-> FALSE, has |-> FALSE, text |-> <<>>]
NoResult == [value |-> <<>>, error |-> NoErr]
Resolved(v) == [value |-> v, error |-> NoErr]
Rejected(e) == [value |-> <<>>, error |-> e]
NoOp == [kind |-> "none", text |-> <<>>, k |-> 0, r0 |-> 0, d0 |-> 0]

\* callWithRetry(fn, r, d) entered: fn() is invoked at once
Enter(p, o, r, d) ==
    /\ pc' = [pc EXCEPT ![p] = "inflight"]
    /\ op' = [op EXCEPT ![p] = o]
    /\ retries' = [retries EXCEPT ![p] = r]
    /\ delay' = [delay EXCEPT ![p] = d]
    /\ calls' = [calls EXCEPT ![p] = 1]
    /\ waits' = [waits EXCEPT ![p] = <<>>]
    /\ result' = [result EXCEPT ![p] = NoResult]
    /\ lastErr' = [lastErr EXCEPT ![p] = NoErr]
    /\ lastReply' = [lastReply EXCEPT ![p] = NoReply]

\* a call that settles without reaching callWithRetry
Settled(p, o, state, value) ==
    /\ pc' = [pc EXCEPT ![p] = state]
    /\ op' = [op EXCEPT ![p] = o]
    /\ retries' = [retries EXCEPT ![p] = 0]
    /\ delay' = [delay EXCEPT ![p] = 0]
    /\ calls' = [calls EXCEPT ![p] = 0]
    /\ waits' = [waits EXCEPT ![p] = <<>>]
    /\ result' = [result EXCEPT ![p] = value]
    /\ lastErr' = [lastErr EXCEPT ![p] = NoErr]
    /\ lastReply' = [lastReply EXCEPT ![p] = NoReply]

\* return await fn(): fn resolved with value
FnReturned(p, value) ==
    /\ pc' = [pc EXCEPT ![p] = "resolved"]
    /\ result' = [result EXCEPT ![p] = Resolved(value)]
    /\ UNCHANGED <<op, retries, delay, calls, waits>>

\* catch (err): fn threw err
FnThrew(p, err) ==
    LET class == Classify(err, retries[p]) IN
    /\ lastErr' = [lastErr EXCEPT ![p] = err]
    /\ IF class = "retry"
       THEN /\ pc' = [pc EXCEPT ![p] = "waiting"]
            /\ waits' = [waits EXCEPT ![p] = Append(@, delay[p])]
            /\ UNCHANGED result
       ELSE /\ pc' = [pc EXCEPT ![p] = "rejected"]
            /\ result' = [result EXCEPT ![p] = Rejected(Rethrown(err, class))]
            /\ UNCHANGED waits
    /\ UNCHANGED <<op, retries, delay, calls>>

\* a retry that starts the next attempt while the current one is in flight
RetryInParallel(p) ==
    /\ pc[p] = "inflight"
    /\ retries[p] > 0
    /\ pc' = [pc EXCEPT ![p] = "inflight"]
    /\ retries' = [retries EXCEPT ![p] = NextRetries(@)]
    /\ delay' = [delay EXCEPT ![p] = NextDelay(@)]
    /\ calls' = [calls EXCEPT ![p] = @ + 1]
    /\ UNCHANGED <<apiKey, translationCache, op, waits, result, lastErr, lastReply>>
    /\ UNCHANGED clientVars

\* the backoff timer fires: return callWithRetry(fn, retries - 1, delay * 2)
Retry(p) ==
    /\ pc[p] = "waiting"
    /\ pc' = [pc EXCEPT ![p] = "inflight"]
    /\ retries' = [retries EXCEPT ![p] = NextRetries(@)]
    /\ delay' = [delay EXCEPT ![p] = NextDelay(@)]
    /\ calls' = [calls EXCEPT ![p] = @ + 1]
    /\ UNCHANGED <<apiKey, translationCache, op, waits, result, lastErr, lastReply>>
    /\ UNCHANGED clientVars

---------------------------------------------------------------------------
(* A mock operation under callWithRetry: fails k times, then succeeds *)

SuccessValue == <<"ok">>
InitialDelays == {1000, DefaultDelay}

StartMock(p) ==
    /\ p = Main
    /\ pc[p] = "idle"
    /\ \E r \in 0..MaxRetries, d \in InitialDelays, k \in 0..(MaxRetries + 1) :
         Enter(p, [kind |-> "mock", text |-> <<>>, k |-> k, r0 |-> r, d0 |-> d], r, d)
    /\ UNCHANGED <<apiKey, translationCache>>
    /\ UNCHANGED clientVars

MockFails(p) ==
    /\ pc[p] = "inflight"
    /\ op[p].kind = "mock"
    /\ calls[p] <= op[p].k
    /\ \E e \in ErrorShapes : FnThrew(p, Err(e.message, e.json, calls[p]))
    /\ UNCHANGED <<apiKey, translationCache, lastReply>>
    /\ UNCHANGED clientVars

MockSucceeds(p) ==
    /\ pc[p] = "inflight"
    /\ op[p].kind = "mock"
    /\ calls[p] > op[p].k
    /\ FnReturned(p, SuccessValue)
    /\ UNCHANGED <<apiKey, translationCache, lastErr, lastReply>>
    /\ UNCHANGED clientVars

---------------------------------------------------------------------------
(* translateText and the translation cache *)

MinTextLen == 2
KeyPrefixLen == 50
TranslateRetries == 1
TranslateDelay == 1000

IsSpace(c) == c = " "

RECURSIVE TrimStart(_)
TrimStart(s) ==
    IF s # <<>> /\ IsSpace(Head(s)) THEN TrimStart(Tail(s)) ELSE s

RECURSIVE TrimEnd(_)
TrimEnd(s) ==
    IF s # <<>> /\ IsSpace(s[Len(s)]) THEN TrimEnd(SubSeq(s, 1, Len(s) - 1)) ELSE s

\* String.prototype.trim
Trim(s) == TrimEnd(TrimStart(s))

Digit(n) == <<"0", "1", "2", "3", "4", "5", "6", "7", "8", "9">>[n + 1]

\* the decimal text of a length, as string concatenation appends it
RECURSIVE Decimal(_)
Decimal(n) == IF n < 10 THEN <<Digit(n)>> ELSE Decimal(n \div 10) \o <<Digit(n % 10)>>

\* cleanText.length > 50 ? cleanText.substring(0, 50) + cleanText.length : cleanText
CacheKey(cleanText) ==
    IF Len(cleanText) > KeyPrefixLen
    THEN SubSeq(cleanText, 1, KeyPrefixLen) \o Decimal(Len(cleanText))
    ELSE cleanText

\* a length test that only rejects the empty text
TooShortEmptyOnly(cleanText) == cleanText = <<>>

\* !cleanText || cleanText.length < 2
TooShort(cleanText) == cleanText = <<>> \/ Len(cleanText) < MinTextLen

\* if (translationCache[cacheKey]): an absent key reads undefined, and the
\* empty string is falsy
CacheHit(cache, cacheKey) ==
    cacheKey \in DOMAIN cache /\ cache[cacheKey] # <<>>

\* a write that rebuilds the cache around the new entry
CacheWriteFresh(cache, cacheKey, translation) ==
    [key \in {cacheKey} |-> translation]

\* translationCache[cacheKey] = translation
CacheWrite(cache, cacheKey, translation) ==
    [key \in DOMAIN cache \cup {cacheKey} |->
        IF key = cacheKey THEN translation ELSE cache[key]]

KeyMissing == <<"Key Missing">>

Prefix == [i \in 1..KeyPrefixLen |-> "a"]

\* the texts callers select or hover
Texts ==
    { <<" ">>, <<" ", "a">>, <<"a", "b">>,
      Prefix \o <<"x">>, Prefix \o <<"y">> }

\* response.text of a translation reply: undefined, or a string
TranslateReplies ==
    { Reply(FALSE, <<>>),
      Reply(TRUE, <<" ">>),
      Reply(TRUE, <<"x">>),
      Reply(TRUE, <<"y", " ">>) }

\* what the external call fails with during a translation
TranslateErrors ==
    { e \in ErrorShapes :
        e.message \in {<<"fetch failed">>, <<"got", "429">>, <<"XHR">>} }

\* response.text?.trim() || ""
TranslationOf(reply) == IF reply.has THEN Trim(reply.text) ELSE <<>>

\* the body of fn on a reply: cache the translation and return it
TranslateOnReply(reply) ==
    [threw |-> FALSE, value |-> TranslationOf(reply), store |-> TRUE]

\* an inner catch that also caches the empty string
TranslateOnErrorCaches(err) ==
    [threw |-> FALSE, value |-> <<>>, store |-> TRUE]

\* an inner catch that lets the error through to callWithRetry
TranslateOnErrorThrows(err) ==
    [threw |-> TRUE, value |-> <<>>, store |-> FALSE]

\* the inner catch of fn: the error is swallowed, nothing is cached
TranslateOnError(err) ==
    [threw |-> FALSE, value |-> <<>>, store |-> FALSE]

\* what translateText does before its first await, on a cache miss
\*   "missing": return "Key Missing";  "call": enter callWithRetry
OnMiss(key) == IF ~key THEN "missing" ELSE "call"

TranslateOp(text) ==
    [kind |-> "translate", text |-> text, k |-> 0,
     r0 |-> TranslateRetries, d0 |-> TranslateDelay]

StartTranslate(p) ==
    /\ pc[p] \in {"idle", "resolved", "rejected"}
    /\ \A q \in Callers : op[q].kind \in {"none", "translate"}
    /\ \E text \in Texts :
         LET cleanText == Trim(text)
             cacheKey == CacheKey(cleanText)
         IN  IF TooShort(cleanText)
             THEN Settled(p, TranslateOp(text), "resolved", Resolved(<<>>))
             ELSE IF CacheHit(translationCache, cacheKey)
             THEN Settled(p, TranslateOp(text), "resolved",
                          Resolved(translationCache[cacheKey]))
             ELSE IF OnMiss(apiKey) = "missing"
             THEN Settled(p, TranslateOp(text), "resolved", Resolved(KeyMissing))
             ELSE Enter(p, TranslateOp(text), TranslateRetries, TranslateDelay)
    /\ UNCHANGED <<apiKey, translationCache>>
    /\ UNCHANGED clientVars

\* fn settles: the outcome of its try block (res.threw is never set by the
\* code's fn, whose catch swallows every error)
TranslateSettle(p, res, err) ==
    LET cacheKey == CacheKey(Trim(op[p].text)) IN
    /\ translationCache' =
         IF res.store THEN CacheWrite(translationCache, cacheKey, res.value)
         ELSE translationCache
    /\ IF res.threw
       THEN FnThrew(p, err)
       ELSE /\ FnReturned(p, res.value)
            /\ lastErr' = [lastErr EXCEPT ![p] = IF err = NoErr THEN @ ELSE err]

TranslateReplied(p) ==
    /\ pc[p] = "inflight"
    /\ op[p].kind = "translate"
    /\ \E reply \in TranslateReplies :
         /\ TranslateSettle(p, TranslateOnReply(reply), NoErr)
         /\ lastReply' = [lastReply EXCEPT ![p] = reply]
    /\ UNCHANGED apiKey
    /\ UNCHANGED clientVars

TranslateFailed(p) ==
    /\ pc[p] = "inflight"
    /\ op[p].kind = "translate"
    /\ \E e \in TranslateErrors :
         LET err == Err(e.message, e.json, calls[p]) IN
         TranslateSettle(p, TranslateOnError(err), err)
    /\ UNCHANGED <<apiKey, lastReply>>
    /\ UNCHANGED clientVars

\* the proxied build of translateText: no credential check and no
\* callWithRetry on the client; one fetch of /api/translate.  A deployment
\* holds one build of the service module, so all callers use the same one.
StartTranslateProxied(p) ==
    /\ pc[p] \in {"idle", "resolved", "rejected"}
    /\ \A q \in Callers : op[q].kind \in {"none", "translateProxied"}
    /\ \E text \in Texts :
         LET cleanText == Trim(text)
             cacheKey == CacheKey(cleanText)
             o == [kind |-> "translateProxied", text |-> text, k |-> 0,
                   r0 |-> 0, d0 |-> 0]
         IN  IF TooShort(cleanText)
             THEN Settled(p, o, "resolved", Resolved(<<>>))
             ELSE IF CacheHit(translationCache, cacheKey)
             THEN Settled(p, o, "resolved", Resolved(translationCache[cacheKey]))
             ELSE Enter(p, o, 0, 0)
    /\ UNCHANGED <<apiKey, translationCache>>
    /\ UNCHANGED clientVars

\* res.ok: cache data.translation and return it
ProxiedOnReply(reply) ==
    [threw |-> FALSE, value |-> TranslationOf(reply), store |-> TRUE]

\* the catch of the proxied translateText
ProxiedOnError(err) ==
    [threw |-> FALSE, value |-> <<>>, store |-> FALSE]

\* /api/translate answered 200 with { translation }
ProxiedReplied(p) ==
    /\ pc[p] = "inflight"
    /\ op[p].kind = "translateProxied"
    /\ apiKey
    /\ \E reply \in TranslateReplies :
         /\ TranslateSettle(p, ProxiedOnReply(reply), NoErr)
         /\ lastReply' = [lastReply EXCEPT ![p] = reply]
    /\ UNCHANGED apiKey
    /\ UNCHANGED clientVars

MissingKeyResponse == Err(<<"Missing API Key">>, <<"{}">>, 0)

\* /api/translate answered 500 (no credential, or the external call failed)
ProxiedFailed(p) ==
    /\ pc[p] = "inflight"
    /\ op[p].kind = "translateProxied"
    /\ \E e \in IF apiKey THEN TranslateErrors ELSE {MissingKeyResponse} :
         LET err == Err(e.message, e.json, calls[p]) IN
         TranslateSettle(p, ProxiedOnError(err), err)
    /\ UNCHANGED <<apiKey, lastReply>>
    /\ UNCHANGED clientVars

---------------------------------------------------------------------------
(* analyzePapersWithGemini, analyzeTrendsWithGemini and POST /api/trend *)

Algorithms == {"strict", "standard", "consultant"}

\* the branch config.algorithm selects
ModeOf(algorithm) ==
    IF algorithm = "strict" THEN "strict"
    ELSE IF algorithm = "standard" THEN "standard"
    ELSE "consultant"

ModeName(mode) ==
    CASE mode = "strict" -> "Strict (Mode C)"
      [] mode = "standard" -> "Standard (Mode B)"
      [] OTHER -> "Consultant (Mode A)"

\* response.text of an analysis reply: undefined, empty, not JSON, JSON
AnalysisReplies ==
    { Reply(FALSE, <<>>),
      Reply(TRUE, <<>>),
      Reply(TRUE, <<"<html>">>),
      Reply(TRUE, <<"quota">>),
      Reply(TRUE, <<"{", "}">>),
      Reply(TRUE, <<"{", "topics", "}">>) }

\* JSON.parse accepts the text
ParsesAsJSON(text) ==
    Len(text) >= 2 /\ text[1] = "{" /\ text[Len(text)] = "}"

\* the message of JSON.parse's SyntaxError: engines either quote the text
\* or give the position of the offending token
SyntaxMessages(text) ==
    { <<"Unexpected token">> \o text \o <<"is not valid JSON">>,
      <<"Unexpected token in JSON at position 0">> }

\* if (!response.text) throw new Error(...)
NoResponseMessage(kind) ==
    CASE kind = "strict" -> <<"No response from AI">>
      [] kind = "trends" -> <<"No response">>
      [] OTHER -> <<"No response text received from AI">>

\* !response.text
NoText(reply) == ~reply.has \/ reply.text = <<>>

\* the body of fn after the external call replied
\*   syntax: the message JSON.parse throws with, should it throw
AnalyzeOnReply(kind, reply, syntax) ==
    IF NoText(reply)
    THEN [threw |-> TRUE, message |-> NoResponseMessage(kind), value |-> <<>>]
    ELSE IF ~ParsesAsJSON(reply.text)
    THEN [threw |-> TRUE, message |-> syntax, value |-> <<>>]
    ELSE IF kind = "strict" /\ ~Includes(reply.text, "topics")
    THEN [threw |-> TRUE,
          message |-> <<"Cannot read properties of undefined (reading 'map')">>,
          value |-> <<>>]
    ELSE IF kind = "trends"
    THEN [threw |-> FALSE, message |-> <<>>, value |-> reply.text]
    ELSE [threw |-> FALSE, message |-> <<>>,
          value |-> reply.text \o <<"modeUsed", ModeName(kind)>>]

KeyMissingError == Err(<<"API Key missing">>, <<"{}">>, 0)

AnalysisOp(kind) ==
    [kind |-> kind, text |-> <<>>, k |-> 0, r0 |-> DefaultRetries, d0 |-> DefaultDelay]

StartAnalyze(p) ==
    /\ p = Main
    /\ pc[p] \in {"idle", "resolved", "rejected"}
    /\ \E algorithm \in Algorithms :
         IF ~apiKey
         THEN Settled(p, AnalysisOp(ModeOf(algorithm)), "rejected", Rejected(KeyMissingError))
         ELSE Enter(p, AnalysisOp(ModeOf(algorithm)), DefaultRetries, DefaultDelay)
    /\ UNCHANGED <<apiKey, translationCache>>
    /\ UNCHANGED clientVars

StartTrends(p) ==
    /\ p = Main
    /\ pc[p] \in {"idle", "resolved", "rejected"}
    /\ IF ~apiKey
       THEN Settled(p, AnalysisOp("trends"), "rejected", Rejected(KeyMissingError))
       ELSE Enter(p, AnalysisOp("trends"), DefaultRetries, DefaultDelay)
    /\ UNCHANGED <<apiKey, translationCache>>
    /\ UNCHANGED clientVars

IsAnalysis(kind) == kind \in Algorithms \cup {"trends"}

AnalyzeReplied(p) ==
    /\ pc[p] = "inflight"
    /\ IsAnalysis(op[p].kind)
    /\ \E reply \in AnalysisReplies : \E syntax \in SyntaxMessages(reply.text) :
         LET res == AnalyzeOnReply(op[p].kind, reply, syntax) IN
         /\ lastReply' = [lastReply EXCEPT ![p] = reply]
         /\ IF res.threw
            THEN FnThrew(p, Err(res.message, <<"{}">>, calls[p]))
            ELSE FnReturned(p, res.value) /\ UNCHANGED lastErr
    /\ UNCHANGED <<apiKey, translationCache>>
    /\ UNCHANGED clientVars

AnalyzeFailed(p) ==
    /\ pc[p] = "inflight"
    /\ IsAnalysis(op[p].kind)
    /\ \E e \in ErrorShapes : FnThrew(p, Err(e.message, e.json, calls[p]))
    /\ UNCHANGED <<apiKey, translationCache, lastReply>>
    /\ UNCHANGED clientVars

\* POST /api/trend: one external call, outside callWithRetry
StartRoute(p) ==
    /\ p = Main
    /\ pc[p] \in {"idle", "resolved", "rejected"}
    /\ LET o == [kind |-> "trendRoute", text |-> <<>>, k |-> 0, r0 |-> 0, d0 |-> 0] IN
       IF ~apiKey
       THEN Settled(p, o, "resolved", Resolved(<<"500">> \o MissingKeyResponse.message))
       ELSE Enter(p, o, 0, 0)
    /\ UNCHANGED <<apiKey, translationCache>>
    /\ UNCHANGED clientVars

\* NextResponse.json(JSON.parse(response.text || "{}")), or the catch's 500
RouteOnReply(reply, syntax) ==
    LET body == IF NoText(reply) THEN <<"{", "}">> ELSE reply.text IN
    IF ParsesAsJSON(body) THEN <<"200">> \o body ELSE <<"500">> \o syntax

\* catch (error): NextResponse.json({ error: error.message }, { status: 500 })
RouteOnError(err) == <<"500">> \o err.message

RouteReplied(p) ==
    /\ pc[p] = "inflight"
    /\ op[p].kind = "trendRoute"
    /\ \E reply \in AnalysisReplies : \E syntax \in SyntaxMessages(reply.text) :
         /\ lastReply' = [lastReply EXCEPT ![p] = reply]
         /\ FnReturned(p, RouteOnReply(reply, syntax))
    /\ UNCHANGED <<apiKey, translationCache, lastErr>>
    /\ UNCHANGED clientVars

RouteFailed(p) ==
    /\ pc[p] = "inflight"
    /\ op[p].kind = "trendRoute"
    /\ \E e \in ErrorShapes :
         LET err == Err(e.message, e.json, calls[p]) IN
         /\ lastErr' = [lastErr EXCEPT ![p] = err]
         /\ FnReturned(p, RouteOnError(err))
    /\ UNCHANGED <<apiKey, translationCache, lastReply>>
    /\ UNCHANGED clientVars

---------------------------------------------------------------------------
(* App: searching, paging and analysing (App.tsx) *)

\* searches the user starts in one session
MaxSearches == 4

\* analysis requests that the model lets resolve in any order
MaxInFlight == 2

\* useState(10)
PageSize == 10

SearchMethods == {"builder", "import", "manual", "upload"}

\* how many papers a search input names: none, less than a page, more than a
\* page
ResultCounts == {0, 3, PageSize + 2}

\* the id of the k-th paper the g-th search names: every search brings its
\* own papers
PaperId(g, k) == g * 100 + k
SearchOf(id) == id \div 100

PapersOf(g, n) == [k \in 1..n |-> PaperId(g, k)]

\* array.slice(start, end)
PageSlice(seq, start, end) ==
    SubSeq(seq, start + 1, IF end < Len(seq) THEN end ELSE Len(seq))

\* Math.ceil(totalCount / pageSize)
PageCount(totalCount) == (totalCount + PageSize - 1) \div PageSize

Pages == 1..PageCount(PageSize + 2)

\* executedQuery: '' or a string; `ids` is what PubMed holds for the string
NoQuery == [kind |-> "none", ids |-> <<>>]
Query(kind, ids) == [kind |-> kind, ids |-> ids]

\* the idlist of searchPubMed(query, 0, all): a builder query finds its
\* papers, a comma-joined PMID list finds those PMIDs, '' and a file name
\* find nothing
PubMedFinds(query) ==
    IF query.kind \in {"builder", "import"} THEN query.ids ELSE <<>>

\* useState<AnalysisResult | null>(null)
NoAnalysis == [has |-> FALSE, paperIds |-> <<>>]
\* what analyzePapersWithGemini resolves with for the papers it was handed
AnalysisOf(papers) == [has |-> TRUE, paperIds |-> papers]

\* a pending continuation of handleSearch, of loadPage
NoSearch == [stage |-> "none", ids |-> <<>>]
NoPage == [sent |-> FALSE, page |-> 0, ids |-> <<>>]

AppIdle ==
    [mode |-> "SEARCH", searchMethod |-> "builder", isSearching |-> FALSE,
     totalCount |-> 0, papers |-> <<>>, currentPage |-> 1,
     executedQuery |-> NoQuery, importedIds |-> <<>>,
     isAnalyzing |-> FALSE, analysisResult |-> NoAnalysis,
     searches |-> 0, searchReq |-> NoSearch, pageReq |-> NoPage,
     analysisReqs |-> <<>>]

\* the sidebar's buttons: setMode(AppMode.SEARCH), setMode(AppMode.ANALYSIS);
\* the second is disabled while there are no papers and no result
SetMode(m) ==
    /\ app.mode # m
    /\ m = "ANALYSIS" => (app.papers # <<>> \/ app.analysisResult.has)
    /\ app' = [app EXCEPT !.mode = m]
    /\ UNCHANGED <<serviceVars, tip, run>>

\* the four buttons of the search-method toggle: setSearchMethod(m) and
\* nothing else
SetSearchMethod(m) ==
    /\ app.mode = "SEARCH"
    /\ app.searchMethod # m
    /\ app' = [app EXCEPT !.searchMethod = m]
    /\ UNCHANGED <<serviceVars, tip, run>>

\* handleSearch up to its first await, or to its end where it awaits nothing;
\* the button is in the search view and is disabled while isSearching or
\* while the input of the method is empty. n is the number of papers the
\* input names: found by the query, listed as PMIDs, typed in, or in the file
HandleSearch(n) ==
    /\ app.mode = "SEARCH"
    /\ ~app.isSearching
    /\ app.searches < MaxSearches
    /\ app.searchMethod = "manual" => n > 0
    /\ LET g == app.searches + 1
           named == PapersOf(g, n)
           reset == [app EXCEPT !.isSearching = TRUE,
                                !.mode = "SEARCH",
                                !.analysisResult = NoAnalysis,
                                !.papers = <<>>,
                                !.currentPage = 1,
                                !.totalCount = 0,
                                !.executedQuery = NoQuery,
                                !.searches = g]
       IN app' =
            CASE app.searchMethod = "builder" ->
                    [reset EXCEPT !.executedQuery = Query("builder", named),
                                  !.importedIds = <<>>,
                                  !.searchReq = [stage |-> "search", ids |-> named]]
              [] app.searchMethod = "import" /\ n = 0 ->
                    [reset EXCEPT !.isSearching = FALSE]
              [] app.searchMethod = "import" /\ n > 0 ->
                    [reset EXCEPT !.importedIds = named,
                                  !.totalCount = n,
                                  !.executedQuery = Query("import", named),
                                  !.searchReq = [stage |-> "details",
                                                 ids |-> PageSlice(named, 0, PageSize)]]
              [] app.searchMethod = "manual" ->
                    [reset EXCEPT !.totalCount = n,
                                  !.papers = named,
                                  !.importedIds = <<>>,
                                  !.isSearching = FALSE]
              [] app.searchMethod = "upload" ->
                    [reset EXCEPT !.searchReq = [stage |-> "reading", ids |-> named]]
    /\ UNCHANGED <<serviceVars, tip, run>>

\* builder: searchPubMed has resolved, with { ids: [], count: 0 } when it
\* failed; setTotalCount(count), and with no ids the function ends
SearchCounted(ok) ==
    /\ app.searchReq.stage = "search"
    /\ LET ids == IF ok THEN PageSlice(app.searchReq.ids, 0, PageSize) ELSE <<>>
           count == IF ok THEN Len(app.searchReq.ids) ELSE 0
       IN app' = IF ids # <<>>
                 THEN [app EXCEPT !.totalCount = count,
                                  !.searchReq = [stage |-> "details", ids |-> ids]]
                 ELSE [app EXCEPT !.totalCount = count,
                                  !.isSearching = FALSE,
                                  !.searchReq = NoSearch]
    /\ UNCHANGED <<serviceVars, tip, run>>

\* builder and import: fetchPaperDetails has resolved, with [] when its fetch
\* failed; setPapers(details), then finally
SearchCompleted(found) ==
    /\ app.searchReq.stage = "details"
    /\ app' = [app EXCEPT !.papers = IF found THEN app.searchReq.ids ELSE <<>>,
                          !.isSearching = FALSE,
                          !.searchReq = NoSearch]
    /\ UNCHANGED <<serviceVars, tip, run>>

\* handleSearch when an await rejects: catch alerts, then finally
SearchFailed ==
    /\ app.searchReq.stage \in {"search", "details"}
    /\ app' = [app EXCEPT !.isSearching = FALSE, !.searchReq = NoSearch]
    /\ UNCHANGED <<serviceVars, tip, run>>

\* what the FileReader hands to reader.onload
FileContents == {"empty", "parsable", "unparsable"}

\* reader.onload
FileLoaded(content) ==
    /\ app.searchReq.stage = "reading"
    /\ app' =
         CASE content = "empty" ->
                 [app EXCEPT !.searchReq = NoSearch]
           [] content = "parsable" /\ app.searchReq.ids # <<>> ->
                 [app EXCEPT !.papers = app.searchReq.ids,
                             !.totalCount = Len(app.searchReq.ids),
                             !.executedQuery = Query("file", <<>>),
                             !.isSearching = FALSE,
                             !.searchReq = NoSearch]
           [] OTHER ->
                 [app EXCEPT !.isSearching = FALSE, !.searchReq = NoSearch]
    /\ UNCHANGED <<serviceVars, tip, run>>

\* the FileReader fails to read the file: no reader.onerror is set
FileReadFailed ==
    /\ app.searchReq.stage = "reading"
    /\ app' = [app EXCEPT !.searchReq = NoSearch]
    /\ UNCHANGED <<serviceVars, tip, run>>

\* loadPage(currentPage - 1), loadPage(currentPage + 1) up to the first
\* await; the buttons are in the results view
LoadPage(page) ==
    /\ app.mode = "SEARCH"
    /\ app.papers # <<>> \/ app.totalCount > 0
    /\ ~app.isSearching
    /\ \/ page = app.currentPage - 1 /\ app.currentPage # 1
       \/ page = app.currentPage + 1 /\ app.currentPage < PageCount(app.totalCount)
    /\ app' =
         IF app.searchMethod \in {"manual", "upload"}
         THEN [app EXCEPT !.currentPage = page]
         ELSE LET all == IF app.searchMethod = "builder"
                         THEN PubMedFinds(app.executedQuery)
                         ELSE app.importedIds
              IN [app EXCEPT !.isSearching = TRUE,
                             !.pageReq = [sent |-> TRUE, page |-> page,
                                          ids |-> PageSlice(all, (page - 1) * PageSize,
                                                            page * PageSize)]]
    /\ UNCHANGED <<serviceVars, tip, run>>

\* loadPage after its awaits, with no ids or no details when a fetch failed:
\* setPapers(details), setCurrentPage(page), then finally
PageLoaded(found) ==
    /\ app.pageReq.sent
    /\ app' = [app EXCEPT !.papers = IF found THEN app.pageReq.ids ELSE <<>>,
                          !.currentPage = app.pageReq.page,
                          !.isSearching = FALSE,
                          !.pageReq = NoPage]
    /\ UNCHANGED <<serviceVars, tip, run>>

\* loadPage when an await rejects: catch alerts, then finally
PageLoadFailed ==
    /\ app.pageReq.sent
    /\ app' = [app EXCEPT !.isSearching = FALSE, !.pageReq = NoPage]
    /\ UNCHANGED <<serviceVars, tip, run>>

\* const displayPapers
DisplayPapers ==
    IF app.searchMethod \in {"manual", "upload"}
    THEN PageSlice(app.papers, (app.currentPage - 1) * PageSize,
                   app.currentPage * PageSize)
    ELSE app.papers

\* a click that reaches handleAnalyze although an analysis is running
HandleAnalyzeWhileAnalyzing ==
    /\ app.mode = "ANALYSIS"
    /\ app.papers # <<>>
    /\ app' = [app EXCEPT !.isAnalyzing = TRUE,
                          !.mode = "ANALYSIS",
                          !.analysisReqs = Append(@, app.papers)]
    /\ UNCHANGED <<serviceVars, tip, run>>

\* handleAnalyze up to its await; the button is in the configuration panel,
\* rendered when !isAnalyzing && !analysisResult
HandleAnalyze ==
    /\ app.mode = "ANALYSIS"
    /\ ~app.isAnalyzing
    /\ ~app.analysisResult.has
    /\ app.papers # <<>>
    /\ app' = [app EXCEPT !.isAnalyzing = TRUE,
                          !.mode = "ANALYSIS",
                          !.analysisReqs = Append(@, app.papers)]
    /\ UNCHANGED <<serviceVars, tip, run>>

\* seq without its k-th element
Without(seq, k) == SubSeq(seq, 1, k - 1) \o SubSeq(seq, k + 1, Len(seq))

\* handleAnalyze after its await: setAnalysisResult(res), then finally
AnalysisCompleted(k) ==
    /\ k <= Len(app.analysisReqs)
    /\ app' = [app EXCEPT !.analysisResult = AnalysisOf(app.analysisReqs[k]),
                          !.isAnalyzing = FALSE,
                          !.analysisReqs = Without(@, k)]
    /\ UNCHANGED <<serviceVars, tip, run>>

\* handleAnalyze when the await rejects: catch alerts, then finally
AnalysisFailed(k) ==
    /\ k <= Len(app.analysisReqs)
    /\ app' = [app EXCEPT !.isAnalyzing = FALSE,
                          !.analysisReqs = Without(@, k)]
    /\ UNCHANGED <<serviceVars, tip, run>>

\* the "New Analysis" button of the result view: setAnalysisResult(null)
NewAnalysis ==
    /\ app.mode = "ANALYSIS"
    /\ ~app.isAnalyzing
    /\ app.analysisResult.has
    /\ app' = [app EXCEPT !.analysisResult = NoAnalysis]
    /\ UNCHANGED <<serviceVars, tip, run>>

---------------------------------------------------------------------------
(* GlobalSelectionTranslator (components/GlobalSelectionTranslator.tsx) *)

\* mouse-up events of one session
MaxMouseUps == 3

\* what window.getSelection().toString() can read
Selections == { <<>>, <<"a">>, <<"a", "b">>, <<" ", "c", "d">> }

\* the translation the service finds for a text
Translated(text) == <<"zh">> \o text

\* how a lookup ends: translateText never rejects
Outcomes == {"translated", "failed", "no key"}

\* what translateText(text) resolves with: the translation, "" after a
\* failure, or "Key Missing"
LookupValue(text, outcome) ==
    CASE outcome = "translated" -> Translated(text)
      [] outcome = "failed" -> <<>>
      [] outcome = "no key" -> KeyMissing

\* useState({ top: 0, left: 0 }): a position is the selection it was taken from
NoPosition == <<>>

TipIdle ==
    [visible |-> FALSE, position |-> NoPosition, translation |-> <<>>,
     loading |-> FALSE, debounceTimer |-> 0, timers |-> {},
     selection |-> <<>>, lookups |-> {}, ups |-> 0]

\* the user changes what is selected in the page
SelectionChange(s) ==
    /\ tip.selection # s
    /\ tip' = [tip EXCEPT !.selection = s]
    /\ UNCHANGED <<serviceVars, app, run>>

\* handleMouseUp: debounceTimer = setTimeout(..., 200)
HandleMouseUp ==
    /\ tip.ups < MaxMouseUps
    /\ tip' = [tip EXCEPT !.ups = @ + 1,
                          !.debounceTimer = tip.ups + 1,
                          !.timers = @ \cup {tip.ups + 1}]
    /\ UNCHANGED <<serviceVars, app, run>>

\* the timer's callback up to its await
TimerFired(t) ==
    /\ t \in tip.timers
    /\ LET text == Trim(tip.selection) IN
        IF text = <<>> \/ Len(text) < MinTextLen
        THEN tip' = [tip EXCEPT !.timers = @ \ {t}]
        ELSE tip' = [tip EXCEPT !.timers = @ \ {t},
                                !.position = tip.selection,
                                !.visible = TRUE,
                                !.loading = TRUE,
                                !.translation = <<>>,
                                !.lookups = @ \cup {[id |-> t, text |-> text]}]
    /\ UNCHANGED <<serviceVars, app, run>>

\* handleMouseDown; a click lands inside the tooltip only while it is rendered
HandleMouseDown(inside) ==
    /\ inside => tip.visible
    /\ tip' = [tip EXCEPT !.timers = @ \ {tip.debounceTimer},
                          !.visible = IF inside THEN @ ELSE FALSE]
    /\ UNCHANGED <<serviceVars, app, run>>

\* the timer's callback after its await: setTranslation(result), then finally
LookupResolved(t, outcome) ==
    /\ \E l \in tip.lookups :
        /\ l.id = t
        /\ tip' = [tip EXCEPT !.translation = LookupValue(l.text, outcome),
                              !.loading = FALSE,
                              !.lookups = @ \ {l}]
    /\ UNCHANGED <<serviceVars, app, run>>

---------------------------------------------------------------------------
(* analyzePapersWithGemini: shaping, mode and normalisation *)

(* A text here is a sequence of pieces; a piece is n consecutive characters
   of one source: a literal of the code (of = 0) or a field of the paper `of`,
   from its first character on.  Lengths and cuts are exact at any size. *)

Lit(s, n) == <<[src |-> s, of |-> 0, n |-> n]>>
\* the first n characters of a field of paper `id`; the empty text when n = 0
Field(f, id, n) == IF n = 0 THEN <<>> ELSE <<[src |-> f, of |-> id, n |-> n]>>

\* the characters of pieces lo..hi, summed by halves
RECURSIVE LenOfRange(_, _, _)
LenOfRange(t, lo, hi) ==
    IF lo > hi THEN 0
    ELSE IF lo = hi THEN t[lo].n
    ELSE LET mid == (lo + hi) \div 2
         IN LenOfRange(t, lo, mid) + LenOfRange(t, mid + 1, hi)

\* String.prototype.length
TextLen(t) == LenOfRange(t, 1, Len(t))

\* the first k characters of pieces lo..hi
RECURSIVE TakeOfRange(_, _, _, _)
TakeOfRange(t, lo, hi, k) ==
    IF lo > hi \/ k <= 0 THEN <<>>
    ELSE IF lo = hi
         THEN IF t[lo].n <= k THEN <<t[lo]>> ELSE <<[t[lo] EXCEPT !.n = k]>>
    ELSE LET mid == (lo + hi) \div 2
             left == LenOfRange(t, lo, mid)
         IN IF k <= left
            THEN TakeOfRange(t, lo, mid, k)
            ELSE SubSeq(t, lo, mid) \o TakeOfRange(t, mid + 1, hi, k - left)

\* String.prototype.substring(0, k)
Substring(t, k) == TakeOfRange(t, 1, Len(t), k)

\* Array.prototype.slice(0, end): a negative end counts from the end
Slice(s, end) ==
    LET e == IF end < 0 THEN (IF Len(s) + end < 0 THEN 0 ELSE Len(s) + end)
             ELSE IF end > Len(s) THEN Len(s) ELSE end
    IN SubSeq(s, 1, e)

\* lines lo..hi with sep between them, joined by halves
RECURSIVE JoinRange(_, _, _, _)
JoinRange(lines, lo, hi, sep) ==
    IF lo > hi THEN <<>>
    ELSE IF lo = hi THEN lines[lo]
    ELSE LET mid == (lo + hi) \div 2
         IN JoinRange(lines, lo, mid, sep) \o sep \o JoinRange(lines, mid + 1, hi, sep)

\* Array.prototype.join
Join(lines, sep) == JoinRange(lines, 1, Len(lines), sep)

DefaultMaxPapers == 50
HighVolumeThreshold == 100
AbstractLimit == 500
MAX_SAFE_CHARS == 300000

Newline == Lit("\\n", 1)
TruncationMarker == Lit("\\n...[TRUNCATED_TO_PREVENT_CRASH]", 32)

\* a Paper: its id, its year, and its title and abstract as texts
Paper(id, year, titleLen, abstractLen) ==
    [id |-> id, year |-> year,
     title |-> Field("title", id, titleLen),
     abstract |-> Field("abstract", id, abstractLen)]

\* `${p.id}` and `${p.year}`
IdText(p) == Field("id", p.id, Len(Decimal(p.id)))
YearText(p) == Field("year", p.id, Len(Decimal(p.year)))

\* a cap that falls back to 100 papers
MaxPapersDefault100(config) ==
    IF "maxPapers" \in config.given /\ config.maxPapers # 0
    THEN config.maxPapers ELSE HighVolumeThreshold

\* config.maxPapers || 50: undefined and 0 are falsy
MAX_PAPERS(config) ==
    IF "maxPapers" \in config.given /\ config.maxPapers # 0
    THEN config.maxPapers ELSE DefaultMaxPapers

\* papers.slice(0, MAX_PAPERS)
PapersToAnalyze(papers, config) == Slice(papers, MAX_PAPERS(config))

\* a switch that already turns at the threshold
IsHighVolumeAtThreshold(papersToAnalyze) == Len(papersToAnalyze) >= HighVolumeThreshold

\* papersToAnalyze.length > 100
IsHighVolume(papersToAnalyze) == Len(papersToAnalyze) > HighVolumeThreshold

\* p.abstract ? p.abstract.substring(0, 500) : 'NA'
AbstractOf(p) ==
    IF p.abstract # <<>> THEN Substring(p.abstract, AbstractLimit) ELSE Lit("NA", 2)

\* the per-paper line of the map callback
LineOf(p, isHighVolume) ==
    IF isHighVolume
    THEN Lit("ID:", 3) \o IdText(p) \o Lit("|Y:", 3) \o YearText(p)
            \o Lit("|", 1) \o p.title
    ELSE Lit("ID:", 3) \o IdText(p) \o Lit("|Y:", 3) \o YearText(p)
            \o Lit("|", 1) \o p.title \o Lit("|", 1) \o AbstractOf(p)

\* a cut that leaves no marker
SafeTextUnmarked(papersText) ==
    IF TextLen(papersText) > MAX_SAFE_CHARS
    THEN Substring(papersText, MAX_SAFE_CHARS)
    ELSE papersText

\* if (papersText.length > MAX_SAFE_CHARS) papersText = substring + marker
SafeText(papersText) ==
    IF TextLen(papersText) > MAX_SAFE_CHARS
    THEN Substring(papersText, MAX_SAFE_CHARS) \o TruncationMarker
    ELSE papersText

\* an AnalysisConfig; `given` names the optional members the caller set (the
\* components of this repository set neither maxPapers nor algorithm)
Config(given, maxPapers, algorithm, creativity) ==
    [given |-> given, maxPapers |-> maxPapers, algorithm |-> algorithm,
     creativity |-> creativity, depth |-> 50, focus |-> "balanced"]

\* the same config with another depth (in hundredths) and focus
Focused(config, depth, focus) == [config EXCEPT !.depth = depth, !.focus = focus]

NoOutcome == [topics |-> <<>>, emergingTopics |-> <<>>, trendData |-> <<>>,
              totalPapersAnalyzed |-> 0, modeUsed |-> "", stamped |-> {}]

\* the locals of an activation that has just been entered
Called(papers, config) ==
    [stage |-> "called", papers |-> papers, config |-> config,
     papersToAnalyze |-> <<>>, isHighVolume |-> FALSE, lines |-> <<>>,
     papersText |-> <<>>, branch |-> "", temperature |-> 0, prompt |-> <<>>,
     rawData |-> <<>>, result |-> NoOutcome]

RunIdle == [Called(<<>>, Config({}, 0, "", 0)) EXCEPT !.stage = "idle"]

\* title and abstract lengths of the papers of an input list
PaperShapes ==
    { [title |-> 10, abstract |-> 20],
      [title |-> 10, abstract |-> 0],
      [title |-> 10, abstract |-> AbstractLimit],
      [title |-> 10, abstract |-> AbstractLimit + 1],
      [title |-> MAX_SAFE_CHARS - 15, abstract |-> 0],
      [title |-> MAX_SAFE_CHARS - 14, abstract |-> 0],
      [title |-> MAX_SAFE_CHARS \div 2, abstract |-> 20] }

\* lengths of the input lists
ListSizes ==
    { 0, 1, 2, 3, DefaultMaxPapers + 1,
      HighVolumeThreshold, HighVolumeThreshold + 1, HighVolumeThreshold + 2 }

\* publication years alternate over two years
YearOf(i) == 2020 + (i % 2)

PaperLists ==
    { [i \in 1..n |-> Paper(i, YearOf(i), shape.title, shape.abstract)] :
        n \in ListSizes, shape \in PaperShapes }

Configs ==
    { Config(given, maxPapers, algorithm, creativity) :
        given \in {{"maxPapers", "algorithm"}},
        maxPapers \in {0, 1, 2, HighVolumeThreshold, HighVolumeThreshold + 1,
                       2 * HighVolumeThreshold},
        algorithm \in Algorithms,
        creativity \in {0, 50} }
    \cup { Config({}, 0, "", 50) }
    \cup { Focused(Config({"algorithm"}, 0, algorithm, 70), depth, focus) :
            algorithm \in Algorithms, depth \in {30, 50},
            focus \in {"broad", "balanced", "specific"} }

\* lines 73-98: cap the list, format the lines, join and cut
Shape ==
    /\ run.stage = "called"
    /\ LET papersToAnalyze == PapersToAnalyze(run.papers, run.config)
           isHighVolume == IsHighVolume(papersToAnalyze)
           lines == [i \in 1..Len(papersToAnalyze) |->
                        LineOf(papersToAnalyze[i], isHighVolume)]
       IN run' = [run EXCEPT !.stage = "shaped",
                             !.papersToAnalyze = papersToAnalyze,
                             !.isHighVolume = isHighVolume,
                             !.lines = lines,
                             !.papersText = SafeText(Join(lines, Newline))]
    /\ UNCHANGED <<serviceVars, app, tip>>

\* sampling temperatures, in hundredths
StrictTemperature == 0
StandardTemperature == 30
ConsultantTemperature == 85

\* a temperature taken from the config's creativity
TemperatureOfCreativity(mode, config) == config.creativity

\* temperature: 0.0 / temp = 0.3 / temp = 0.85
Temperature(mode, config) ==
    CASE mode = "strict" -> StrictTemperature
      [] mode = "standard" -> StandardTemperature
      [] OTHER -> ConsultantTemperature

(* A prompt is a sequence of parts: fixed text of the template, or a number
   the template embeds. *)
Words(s) == [lit |-> s, num |-> 0]
Num(n) == [lit |-> "", num |-> n]

\* the prompt of the strict branch, lines 102-115
StrictPrompt(r) ==
    << Words("ROLE: STRICT DATA CLUSTERING ENGINE."),
       Words("DATASET_SIZE: "), Num(Len(r.papersToAnalyze)), Words(" papers."),
       Words("MODE: "),
       Words(IF r.isHighVolume THEN "HIGH_VOLUME (Titles Only)"
                               ELSE "DEEP_SCAN (Abstracts)"),
       Words("PROTOCOL: 1. FILTER NOISE 2. CLUSTER 3. OUTPUT: JSON."),
       Words("INPUT DATA:"), Words("${papersText}") >>

\* systemInstr, lines 210-218
SystemInstr(mode) ==
    IF mode = "standard"
    THEN "Role: Research Assistant. Task: Group papers by factual topics. Style: Descriptive, comprehensive."
    ELSE "Role: Visionary Scientist. Task: Find hidden connections/future trends. Style: Provocative."

\* the prompt of modes A and B, lines 220-229
ModePrompt(r, mode) ==
    << Words(SystemInstr(mode)),
       Words("Dataset: "), Num(Len(r.papersToAnalyze)), Words(" papers."),
       Words(IF r.isHighVolume THEN "Note: Analyzing Titles Only (High Volume)."
                               ELSE ""),
       Words("Task: Analyze and Cluster."),
       Words("Input:"), Words("${papersText}") >>

\* the instruction text the branch sends
Prompt(r, mode) == IF mode = "strict" THEN StrictPrompt(r) ELSE ModePrompt(r, mode)

\* lines 101 and 210: the branch is taken and the request is built
Send ==
    /\ run.stage = "shaped"
    /\ LET mode == ModeOf(run.config.algorithm)
       IN run' = [run EXCEPT !.stage = "sent",
                             !.branch = mode,
                             !.temperature = Temperature(mode, run.config),
                             !.prompt = Prompt(run, mode)]
    /\ UNCHANGED <<serviceVars, app, tip>>

\* the members of a topic the normaliser looks at besides its name
TopicFields ==
    {"id", "keywords", "novelty", "impact", "volume", "trend", "description",
     "paperIds"}

\* a topic object: `given` names the members it has; novelty and impact are in
\* hundredths
Topic(name, given, novelty, impact, trend, paperIds) ==
    [name |-> name, given |-> given, novelty |-> novelty, impact |-> impact,
     volume |-> 0, trend |-> trend, paperIds |-> paperIds]

DefaultScore == 50
EmergingNovelty == 80

\* the topics arrays of the replies JSON.parse yields
TopicReplies ==
    { <<>>,
      <<Topic("T1", {}, 0, 0, "", <<>>)>>,
      <<Topic("T1", {"novelty", "impact", "trend", "paperIds"}, 90, 70, "rising", <<1, 2, 3>>)>>,
      <<Topic("T1", {"novelty", "trend", "paperIds"}, 0, 0, "", <<>>)>>,
      <<Topic("T1", {"paperIds"}, 0, 0, "", <<1, 1>>)>>,
      <<Topic("T1", {"paperIds", "novelty"}, 80, 0, "", <<2, 999, DefaultMaxPapers + 1>>)>>,
      <<Topic("T1", {"paperIds"}, 0, 0, "", <<1, 3>>),
        Topic("T2", {"paperIds", "trend"}, 0, 0, "declining", <<2, 3>>)>>,
      <<Topic("T1", {"paperIds"}, 0, 0, "", <<1>>),
        Topic("T1", {"paperIds", "novelty"}, 81, 0, "", <<3>>)>>,
      <<Topic("T1", {"trend", "paperIds"}, 0, 0, "rising", <<2>>),
        Topic("T2", {"novelty", "trend"}, 80, 0, "stable", <<>>),
        Topic("T3", {"novelty"}, 95, 0, "", <<>>)>> }

\* the callback of rawData.topics.map, lines 153-163
NormalizeTopic(t) ==
    [name |-> t.name,
     given |-> TopicFields,
     novelty |-> IF "novelty" \in t.given THEN t.novelty ELSE DefaultScore,
     impact |-> IF "impact" \in t.given THEN t.impact ELSE DefaultScore,
     volume |-> IF "paperIds" \in t.given THEN Len(t.paperIds) ELSE 0,
     trend |-> IF "trend" \in t.given /\ t.trend # "" THEN t.trend ELSE "stable",
     paperIds |-> IF "paperIds" \in t.given THEN t.paperIds ELSE <<>>]

\* papers.find(paper => paper.id === pid): the index of the first match, or 0
Find(papers, pid) ==
    IF \E i \in 1..Len(papers) : papers[i].id = pid
    THEN CHOOSE i \in 1..Len(papers) :
            papers[i].id = pid /\ \A j \in 1..(i - 1) : papers[j].id # pid
    ELSE 0

\* yearCounts[y] once t.paperIds.forEach has run; 0 when the key is absent
YearCount(t, papers, y) ==
    Cardinality({ k \in 1..Len(t.paperIds) :
                    /\ Find(papers, t.paperIds[k]) # 0
                    /\ papers[Find(papers, t.paperIds[k])].year = y })

\* the keys of yearCounts
YearKeys(t, papers) ==
    { papers[Find(papers, t.paperIds[k])].year :
        k \in { k \in 1..Len(t.paperIds) : Find(papers, t.paperIds[k]) # 0 } }

\* Object.entries lists integer keys in ascending order
RECURSIVE Ascending(_)
Ascending(S) ==
    IF S = {} THEN <<>>
    ELSE LET m == CHOOSE x \in S : \A y \in S : x <= y
         IN <<m>> \o Ascending(S \ {m})

\* the entries one topic pushes onto trendData
TopicTrend(t, papers) ==
    LET years == Ascending(YearKeys(t, papers))
    IN [j \in 1..Len(years) |->
            [year |-> years[j], topic |-> t.name,
             count |-> YearCount(t, papers, years[j])]]

\* topics.forEach(...), lines 167-178
RECURSIVE TrendDataFrom(_, _, _)
TrendDataFrom(topics, i, papers) ==
    IF i > Len(topics) THEN <<>>
    ELSE TopicTrend(topics[i], papers) \o TrendDataFrom(topics, i + 1, papers)

TrendData(topics, papers) == TrendDataFrom(topics, 1, papers)

\* lines 180-187
StrictReason == "High Density Cluster (Strict Mode)."

\* a filter that already admits a novelty at the threshold
EmergingTopicsAtThreshold(topics) ==
    LET picked == SelectSeq(topics,
                    LAMBDA t : t.trend = "rising" \/ t.novelty >= EmergingNovelty)
    IN [j \in 1..Len(picked) |->
            [name |-> picked[j].name, reason |-> StrictReason,
             potentialScore |-> picked[j].novelty,
             paperIds |-> picked[j].paperIds]]

EmergingTopics(topics) ==
    LET picked == SelectSeq(topics,
                    LAMBDA t : t.trend = "rising" \/ t.novelty > EmergingNovelty)
    IN [j \in 1..Len(picked) |->
            [name |-> picked[j].name, reason |-> StrictReason,
             potentialScore |-> picked[j].novelty,
             paperIds |-> picked[j].paperIds]]

\* the members both branches set on what they return; the timestamp's value,
\* the clock's reading, is left out
Stamps == {"totalPapersAnalyzed", "timestamp", "modeUsed"}

\* what the strict branch returns, lines 153-200
StrictResult(r, rawTopics) ==
    LET topics == [i \in 1..Len(rawTopics) |-> NormalizeTopic(rawTopics[i])]
    IN [topics |-> topics,
        emergingTopics |-> EmergingTopics(topics),
        trendData |-> TrendData(topics, r.papers),
        totalPapersAnalyzed |-> Len(r.papersToAnalyze),
        modeUsed |-> ModeName("strict"),
        stamped |-> Stamps]

\* what modes A and B return, lines 293-297: the parsed reply with three
\* members stamped; the reply's own trendData and emergingTopics are outside
\* this model
ParsedResult(r, rawTopics) ==
    [topics |-> rawTopics,
     emergingTopics |-> <<>>,
     trendData |-> <<>>,
     totalPapersAnalyzed |-> Len(r.papersToAnalyze),
     modeUsed |-> ModeName(r.branch),
     stamped |-> Stamps]

\* the reply arrives with a topics array and the branch builds its result
Normalize(rawTopics) ==
    /\ run.stage = "sent"
    /\ run' = [run EXCEPT !.stage = "done",
                          !.rawData = rawTopics,
                          !.result = IF run.branch = "strict"
                                     THEN StrictResult(run, rawTopics)
                                     ELSE ParsedResult(run, rawTopics)]
    /\ UNCHANGED <<serviceVars, app, tip>>

---------------------------------------------------------------------------

\* no call has been made yet
ServiceIdle ==
    /\ translationCache = [key \in {} |-> <<>>]
    /\ pc = [p \in Callers |-> "idle"]
    /\ op = [p \in Callers |-> NoOp]
    /\ retries = [p \in Callers |-> 0]
    /\ delay = [p \in Callers |-> 0]
    /\ calls = [p \in Callers |-> 0]
    /\ waits = [p \in Callers |-> <<>>]
    /\ result = [p \in Callers |-> NoResult]
    /\ lastErr = [p \in Callers |-> NoErr]
    /\ lastReply = [p \in Callers |-> NoReply]

Init ==
    /\ apiKey \in BOOLEAN
    /\ ServiceIdle
    /\ app = AppIdle
    /\ tip = TipIdle
    /\ run = RunIdle

\* the components run in a deployment that has its key
InitClient ==
    /\ apiKey = TRUE
    /\ ServiceIdle
    /\ app = AppIdle
    /\ tip = TipIdle
    /\ run = RunIdle

NextRetry == \E p \in Callers : StartMock(p) \/ MockFails(p) \/ MockSucceeds(p) \/ Retry(p)

SpecRetry == Init /\ [][NextRetry]_vars

\* fn of translateText never throws, so its callWithRetry frame never waits:
\* Retry is never enabled for a translation
NextTranslate ==
    \E p \in Callers :
        \/ StartTranslate(p) \/ TranslateReplied(p) \/ TranslateFailed(p)
        \/ StartTranslateProxied(p) \/ ProxiedReplied(p) \/ ProxiedFailed(p)

SpecTranslate == Init /\ [][NextTranslate]_vars

NextAnalyze ==
    \E p \in Callers :
        \/ StartAnalyze(p) \/ StartTrends(p) \/ AnalyzeReplied(p) \/ AnalyzeFailed(p)
        \/ Retry(p)
        \/ StartRoute(p) \/ RouteReplied(p) \/ RouteFailed(p)

SpecAnalyze == Init /\ [][NextAnalyze]_vars

\* analyzePapersWithGemini is entered with a paper list and a config
InitRun ==
    /\ apiKey = TRUE
    /\ ServiceIdle
    /\ app = AppIdle
    /\ tip = TipIdle
    /\ run \in { Called(papers, config) : papers \in PaperLists, config \in Configs }

NextRun ==
    \/ Shape
    \/ Send
    \/ \E rawTopics \in TopicReplies : Normalize(rawTopics)

SpecRun == InitRun /\ [][NextRun]_vars

NextApp ==
    \/ \E m \in {"SEARCH", "ANALYSIS"} : SetMode(m)
    \/ \E m \in SearchMethods : SetSearchMethod(m)
    \/ \E n \in ResultCounts : HandleSearch(n)
    \/ \E ok \in BOOLEAN : SearchCounted(ok)
    \/ \E found \in BOOLEAN : SearchCompleted(found)
    \/ SearchFailed
    \/ \E content \in FileContents : FileLoaded(content)
    \/ FileReadFailed
    \/ \E page \in Pages : LoadPage(page)
    \/ \E found \in BOOLEAN : PageLoaded(found)
    \/ PageLoadFailed
    \/ HandleAnalyze
    \/ \E k \in 1..MaxInFlight : AnalysisCompleted(k)
    \/ \E k \in 1..MaxInFlight : AnalysisFailed(k)
    \/ NewAnalysis

SpecApp == InitClient /\ [][NextApp]_vars

\* the replies of PubMed and of the AI arrive and the FileReader reports:
\* every pending continuation eventually runs
SpecAppFair ==
    /\ SpecApp
    /\ WF_vars(\E ok \in BOOLEAN : SearchCounted(ok))
    /\ WF_vars(\E found \in BOOLEAN : SearchCompleted(found))
    /\ WF_vars(\E content \in FileContents : FileLoaded(content))
    /\ WF_vars(\E found \in BOOLEAN : PageLoaded(found))
    /\ WF_vars(\E k \in 1..MaxInFlight : AnalysisCompleted(k))

NextTip ==
    \/ \E s \in Selections : SelectionChange(s)
    \/ HandleMouseUp
    \/ \E t \in 1..MaxMouseUps : TimerFired(t)
    \/ \E inside \in BOOLEAN : HandleMouseDown(inside)
    \/ \E t \in 1..MaxMouseUps, outcome \in Outcomes : LookupResolved(t, outcome)

SpecTip == InitClient /\ [][NextTip]_vars

---------------------------------------------------------------------------
(* Claims about callWithRetry, checked under SpecRetry *)

Done(p) == pc[p] \in {"resolved", "rejected"}

\* the latest failure of p was neither quota- nor payload-marked
Transient(err) ==
    /\ ~HasQuotaMarker(ErrorMessage(err))
    /\ ~HasPayloadMarker(ErrorMessage(err))

\* each wait after the first is twice the one before
Doubling(ws) == \A i \in 1..(Len(ws) - 1) : ws[i + 1] = 2 * ws[i]

\* C1: a mock operation that fails transiently k times and then succeeds,
\* run with a retry budget r >= k, ends resolved with the success value after
\* exactly k + 1 invocations and k waits; the first wait is the initial delay
\* and each later wait is twice the previous one.
C1_RetryThenSucceed ==
    \A p \in Callers :
        (/\ op[p].kind = "mock"
         /\ Done(p)
         /\ op[p].r0 >= op[p].k
         /\ Transient(lastErr[p]))
        => /\ pc[p] = "resolved"
           /\ result[p] = Resolved(SuccessValue)
           /\ calls[p] = op[p].k + 1
           /\ Len(waits[p]) = op[p].k
           /\ (op[p].k >= 1 => waits[p][1] = op[p].d0)
           /\ Doubling(waits[p])

C1_Witness ==
    \E p \in Callers :
        /\ op[p].kind = "mock"
        /\ pc[p] = "resolved"
        /\ op[p].k = 3
        /\ waits[p] = <<1000, 2000, 4000>>

\* C2: a mock operation that fails transiently on every attempt, run with
\* retry budget r, is invoked exactly r + 1 times with r waits, and the chain
\* rejects with the error object of the last attempt, unchanged.
C2_ExhaustedRethrowsLast ==
    \A p \in Callers :
        (/\ op[p].kind = "mock"
         /\ Done(p)
         /\ op[p].k > op[p].r0
         /\ Transient(lastErr[p]))
        => /\ pc[p] = "rejected"
           /\ calls[p] = op[p].r0 + 1
           /\ Len(waits[p]) = op[p].r0
           /\ result[p] = Rejected(lastErr[p])
           /\ lastErr[p].attempt = calls[p]

C2_Witness ==
    \E p \in Callers :
        /\ op[p].kind = "mock"
        /\ pc[p] = "rejected"
        /\ op[p].r0 = 2
        /\ calls[p] = 3
        /\ Transient(lastErr[p])
        /\ result[p].error.attempt = 3

\* C3: an attempt that fails with a quota-marked error ("429",
\* "RESOURCE_EXHAUSTED" or "quota" in its text) ends the chain at once: no
\* wait and no further attempt follows it, whatever budget remains, and the
\* chain rejects with the quota-exceeded condition.
C3_QuotaIsFatal ==
    \A p \in Callers :
        (/\ op[p].kind = "mock"
         /\ \/ Includes(ErrorMessage(lastErr[p]), "429")
            \/ Includes(ErrorMessage(lastErr[p]), "RESOURCE_EXHAUSTED")
            \/ Includes(ErrorMessage(lastErr[p]), "quota"))
        => /\ pc[p] = "rejected"
           /\ result[p] = Rejected(QuotaExceeded)
           /\ calls[p] = lastErr[p].attempt
           /\ Len(waits[p]) = calls[p] - 1

C3_Witness ==
    \E p \in Callers :
        /\ op[p].kind = "mock"
        /\ Includes(ErrorMessage(lastErr[p]), "quota")
        /\ lastErr[p].attempt = 1
        /\ retries[p] = 3
        /\ pc[p] = "rejected"

\* C4: an attempt that fails with a payload-marked error ("Rpc failed",
\* "error code: 6" or "XHR" in its text) and no quota marker ends the chain at
\* once: no wait and no further attempt follows it, whatever budget remains,
\* and the chain rejects with the payload-too-large condition, whose message
\* differs from the quota-exceeded message.
C4_PayloadIsFatal ==
    \A p \in Callers :
        (/\ op[p].kind = "mock"
         /\ \/ Includes(ErrorMessage(lastErr[p]), "Rpc failed")
            \/ Includes(ErrorMessage(lastErr[p]), "error code: 6")
            \/ Includes(ErrorMessage(lastErr[p]), "XHR")
         /\ ~HasQuotaMarker(ErrorMessage(lastErr[p])))
        => /\ pc[p] = "rejected"
           /\ result[p] = Rejected(PayloadTooLarge)
           /\ result[p].error.message # QuotaExceeded.message
           /\ calls[p] = lastErr[p].attempt
           /\ Len(waits[p]) = calls[p] - 1

C4_Witness ==
    \E p \in Callers :
        /\ op[p].kind = "mock"
        /\ Includes(ErrorMessage(lastErr[p]), "XHR")
        /\ ~HasQuotaMarker(ErrorMessage(lastErr[p]))
        /\ lastErr[p].attempt = 2
        /\ retries[p] = 2
        /\ pc[p] = "rejected"

---------------------------------------------------------------------------
(* Claims about the analysis calls and the trend route, checked under
   SpecAnalyze *)

\* the latest reply carried no text, or text JSON.parse rejects
BadReply(reply) == reply.seen /\ (NoText(reply) \/ ~ParsesAsJSON(reply.text))

\* C5: in analyzePapersWithGemini (every mode) and analyzeTrendsWithGemini,
\* once the external call has answered with no text or with text that does
\* not parse as JSON, the call has failed after exactly one invocation: no
\* backoff wait and no further attempt.
C5_BadReplyNotRetried ==
    \A p \in Callers :
        (IsAnalysis(op[p].kind) /\ BadReply(lastReply[p]))
        => /\ pc[p] = "rejected"
           /\ calls[p] = 1
           /\ waits[p] = <<>>

\* the call of p ended in success: a resolved promise, or a 200 response
Succeeded(p) ==
    /\ pc[p] = "resolved"
    /\ op[p].kind = "trendRoute" => Head(result[p].value) = "200"

\* C6: a reply without text never ends as a success, in
\* analyzePapersWithGemini, analyzeTrendsWithGemini and POST /api/trend.
C6_NoTextIsAnError ==
    \A p \in Callers :
        (/\ IsAnalysis(op[p].kind) \/ op[p].kind = "trendRoute"
         /\ lastReply[p].seen
         /\ NoText(lastReply[p]))
        => ~Succeeded(p)

---------------------------------------------------------------------------
(* Claims about translateText, checked under SpecTranslate *)

IsTranslate(kind) == kind \in {"translate", "translateProxied"}

NotRunning(p) == pc[p] \in {"idle", "resolved", "rejected"}

\* p begins a call in this step
Starts(p) ==
    /\ NotRunning(p)
    /\ <<pc[p], op[p], calls[p], result[p]>>' # <<pc[p], op[p], calls[p], result[p]>>

\* C7: a call of translateText on a text of at least 2 characters after
\* trimming has completed with a reply of the external call (any reply, the
\* empty one included) and nothing else has run; a second call on the same
\* text then issues no external call and returns the string of the first.
C7_SecondCallFromCache ==
    [][\A p, q \in Callers :
        (/\ p # q
         /\ \A r \in Callers \ {q} : pc[r] = "idle" /\ op[r] = NoOp
         /\ op[q].kind = "translate"
         /\ pc[q] = "resolved"
         /\ calls[q] = 1
         /\ lastReply[q].seen
         /\ Starts(p)
         /\ op'[p].kind = "translate"
         /\ op'[p].text = op[q].text)
        => /\ pc'[p] = "resolved"
           /\ calls'[p] = 0
           /\ result'[p] = result[q]]_vars

\* the external call of p's latest attempt failed
ExternalFailed(p) == lastErr[p] # NoErr /\ lastErr[p].attempt = calls[p]

\* C8 as stated: after a failed external call on a cache miss the empty
\* string is stored under the text's key and returned.
C8_FailureCachesEmpty ==
    \A p \in Callers :
        (op[p].kind = "translate" /\ pc[p] = "resolved" /\ ExternalFailed(p))
        => /\ result[p] = Resolved(<<>>)
           /\ CacheKey(Trim(op[p].text)) \in DOMAIN translationCache
           /\ translationCache[CacheKey(Trim(op[p].text))] = <<>>

\* C8 (amended): when the external call of a translation fails, the call
\* resolves to the empty string and the translation cache is left exactly as
\* it was: nothing is stored under the text's key.
C8_FailureLeavesCache ==
    [][\A p \in Callers :
        (/\ op[p].kind = "translate"
         /\ pc[p] = "inflight"
         /\ pc'[p] # "inflight"
         /\ lastErr'[p] # lastErr[p])
        => /\ translationCache' = translationCache
           /\ pc'[p] = "resolved"
           /\ result'[p] = Resolved(<<>>)]_vars

C8_Witness ==
    \E p \in Callers :
        /\ op[p].kind = "translate"
        /\ pc[p] = "resolved"
        /\ ExternalFailed(p)
        /\ result[p] = Resolved(<<>>)
        /\ CacheKey(Trim(op[p].text)) \notin DOMAIN translationCache

\* the call of p met a failure: its external call failed, or the credential
\* is missing (without a credential nothing is ever cached, so every text of
\* 2 or more characters reaches the credential check)
MissingCredential(p) == ~apiKey /\ Len(Trim(op[p].text)) >= MinTextLen

\* C9 as stated: translateText never rejects, and on every failure (external
\* call failure, missing credential) it resolves to the empty string.
C9_EmptyOnEveryFailure ==
    \A p \in Callers :
        (IsTranslate(op[p].kind) /\ Done(p))
        => /\ pc[p] = "resolved"
           /\ (ExternalFailed(p) \/ MissingCredential(p)) => result[p] = Resolved(<<>>)

\* C9 (amended): translateText never rejects and never waits; when its
\* external call fails it resolves to the empty string; when the credential
\* is missing the direct build resolves to "Key Missing" and the proxied
\* build to the empty string.
C9_NeverRejects ==
    \A p \in Callers :
        IsTranslate(op[p].kind)
        => /\ pc[p] \notin {"rejected", "waiting"}
           /\ (Done(p) /\ ExternalFailed(p)) => result[p] = Resolved(<<>>)
           /\ (Done(p) /\ MissingCredential(p)) =>
                 result[p] = Resolved(IF op[p].kind = "translate" THEN KeyMissing ELSE <<>>)

C9_Witness ==
    \E p \in Callers :
        /\ op[p].kind = "translate"
        /\ pc[p] = "resolved"
        /\ ExternalFailed(p)
        /\ HasQuotaMarker(ErrorMessage(lastErr[p]))
        /\ result[p] = Resolved(<<>>)

\* C10: a translation whose external call fails transiently on the first
\* attempt is attempted exactly once more, after the initial delay.
C10_TransientRetriedOnce ==
    \A p \in Callers :
        (/\ op[p].kind = "translate"
         /\ Done(p)
         /\ lastErr[p].attempt = 1
         /\ Transient(lastErr[p]))
        => /\ calls[p] = 2
           /\ waits[p] = <<TranslateDelay>>

\* C11: translateText on a text whose trimmed length is under 2 returns the
\* empty string, issues no external call and leaves the translation cache
\* unchanged.
C11_ShortTextShortCircuits ==
    [][\A p \in Callers :
        (/\ Starts(p)
         /\ IsTranslate(op'[p].kind)
         /\ Len(Trim(op'[p].text)) < 2)
        => /\ pc'[p] = "resolved"
           /\ result'[p] = Resolved(<<>>)
           /\ calls'[p] = 0
           /\ translationCache' = translationCache]_vars

C11_Witness ==
    \E p \in Callers :
        /\ op[p].kind = "translate"
        /\ Len(Trim(op[p].text)) = 1
        /\ pc[p] = "resolved"
        /\ calls[p] = 0
        /\ result[p] = Resolved(<<>>)
        /\ DOMAIN translationCache # {}

\* C12 as stated: once a key has an entry it is never removed and the value
\* stored under it is never replaced.
C12_EntriesNeverChange ==
    [][\A key \in DOMAIN translationCache :
        /\ key \in DOMAIN translationCache'
        /\ translationCache'[key] = translationCache[key]]_vars

\* C12 (amended): once a key has an entry it is never removed; the value
\* under it changes only when a translation call for that key that missed
\* the cache completes with a reply (the last write wins).
C12_KeysNeverRemoved ==
    [][\A key \in DOMAIN translationCache :
        /\ key \in DOMAIN translationCache'
        /\ translationCache'[key] # translationCache[key]
           => \E p \in Callers :
                /\ IsTranslate(op[p].kind)
                /\ CacheKey(Trim(op[p].text)) = key
                /\ pc[p] = "inflight"
                /\ pc'[p] = "resolved"
                /\ lastReply'[p].seen
                /\ translationCache'[key] = result'[p].value]_vars

\* two calls on one key both missed, and the later reply replaced the
\* translation the earlier one had stored, beside an entry under another key
C12_Witness ==
    \E p, q \in Callers :
        /\ p # q
        /\ op[p].kind = "translate" /\ op[q].kind = "translate"
        /\ pc[p] = "resolved" /\ pc[q] = "resolved"
        /\ calls[p] = 1 /\ calls[q] = 1
        /\ CacheKey(Trim(op[p].text)) = CacheKey(Trim(op[q].text))
        /\ result[p].value # <<>>
        /\ result[q].value # <<>>
        /\ result[p] # result[q]
        /\ translationCache[CacheKey(Trim(op[p].text))] = result[q].value

---------------------------------------------------------------------------
(* Claims about the components, checked under SpecApp and SpecTip *)

\* C13: when a new search is started while an analysis request is in flight,
\* the response of that request is discarded: the analysisResult held after
\* the search never comes from a request issued before it, so a held result
\* is always over the papers of the latest search.
C13_StaleAnalysisDiscarded ==
    app.analysisResult.has =>
        \A i \in 1..Len(app.analysisResult.paperIds) :
            SearchOf(app.analysisResult.paperIds[i]) = app.searches

\* C14: the tooltip never shows, as the translation of the selection it is
\* placed at, a result that was requested for an earlier selection.
C14_StaleTranslationDiscarded ==
    (tip.visible /\ ~tip.loading /\ tip.translation \notin {<<>>, KeyMissing})
        => tip.translation = Translated(Trim(tip.position))

---------------------------------------------------------------------------
(* Claims about analyzePapersWithGemini, checked under SpecRun *)

Shaped == run.stage \in {"shaped", "sent", "done"}
Smaller(a, b) == IF a < b THEN a ELSE b
FirstOf(s, n) == [i \in 1..Smaller(Len(s), n) |-> s[i]]
CapGiven == "maxPapers" \in run.config.given

\* C15: for every paper list and every maxPapers cap, the papers shaped into
\* the payload are exactly the first min(length, maxPapers) papers of the
\* input, in the order supplied.
C15_FirstMaxPapers ==
    (Shaped /\ CapGiven) =>
        run.papersToAnalyze = FirstOf(run.papers, run.config.maxPapers)

\* C15, amended: with a positive cap the papers shaped are the first
\* min(length, maxPapers) of the input in order; with a cap of 0, or none,
\* they are the first min(length, 50).
C15_FirstMaxPapersOrFifty ==
    Shaped =>
        run.papersToAnalyze =
            FirstOf(run.papers,
                    IF CapGiven /\ run.config.maxPapers > 0
                    THEN run.config.maxPapers ELSE 50)

\* a list longer than its positive cap has been cut to the cap
C15_Witness ==
    /\ Shaped /\ CapGiven
    /\ run.config.maxPapers > 0
    /\ Len(run.papers) > run.config.maxPapers
    /\ Len(run.papersToAnalyze) = run.config.maxPapers

TitleOnlyLine(p) ==
    Lit("ID:", 3) \o Field("id", p.id, Len(Decimal(p.id)))
        \o Lit("|Y:", 3) \o Field("year", p.id, Len(Decimal(p.year)))
        \o Lit("|", 1) \o p.title

\* the abstract's first 500 characters; NA stands in for an empty abstract
ExtendedLine(p) ==
    TitleOnlyLine(p) \o Lit("|", 1)
        \o (IF p.abstract = <<>> THEN Lit("NA", 2)
            ELSE Field("abstract", p.id, Smaller(p.abstract[1].n, 500)))

\* C16: every line is title-only (id, year, title) if and only if more than
\* 100 papers remain after capping; with 100 or fewer every line is extended
\* and carries the abstract cut to its first 500 characters.
C16_TitleOnlyAbove100 ==
    Shaped =>
        /\ run.isHighVolume <=> Len(run.papersToAnalyze) > 100
        /\ Len(run.lines) = Len(run.papersToAnalyze)
        /\ \A i \in 1..Len(run.lines) :
                run.lines[i] = IF Len(run.papersToAnalyze) > 100
                               THEN TitleOnlyLine(run.papersToAnalyze[i])
                               ELSE ExtendedLine(run.papersToAnalyze[i])

\* 101 capped papers, with abstracts, shaped as title-only lines
C16_Witness ==
    /\ Shaped
    /\ Len(run.papersToAnalyze) = 101
    /\ run.papersToAnalyze[1].abstract # <<>>
    /\ run.lines[1] = TitleOnlyLine(run.papersToAnalyze[1])

\* x is the first k characters of text
IsCutOf(x, text, k) ==
    /\ TextLen(x) = k
    /\ Len(x) <= Len(text)
    /\ \A i \in 1..Len(x) :
        /\ x[i].src = text[i].src /\ x[i].of = text[i].of
        /\ IF i < Len(x) THEN x[i].n = text[i].n ELSE x[i].n <= text[i].n

\* C17: a joined payload text longer than 300,000 characters is replaced by
\* its first 300,000 characters followed by the truncation marker; one of
\* 300,000 characters or fewer is passed on unchanged.
C17_SafetyTruncation ==
    Shaped =>
        LET joined == Join(run.lines, Newline) IN
        IF TextLen(joined) > 300000
        THEN /\ Len(run.papersText) > 1
             /\ <<run.papersText[Len(run.papersText)]>> = TruncationMarker
             /\ IsCutOf(SubSeq(run.papersText, 1, Len(run.papersText) - 1),
                        joined, 300000)
        ELSE run.papersText = joined

\* a payload of more than 300,000 characters was cut inside a paper's title
C17_Witness ==
    /\ Shaped
    /\ TextLen(Join(run.lines, Newline)) > 300000
    /\ TextLen(run.papersText) = 300000 + 32
    /\ run.papersText[Len(run.papersText) - 1].src = "title"

Sent == run.stage \in {"sent", "done"}

Returned == run.stage = "done"

\* the topic returned for raw has the defaults of every member raw omits
Defaulted(raw, t) ==
    /\ "novelty" \notin raw.given => ("novelty" \in t.given /\ t.novelty = 50)
    /\ "impact" \notin raw.given => ("impact" \in t.given /\ t.impact = 50)
    /\ "trend" \notin raw.given => ("trend" \in t.given /\ t.trend = "stable")
    /\ "paperIds" \notin raw.given =>
            /\ "paperIds" \in t.given /\ t.paperIds = <<>>
            /\ "volume" \in t.given /\ t.volume = 0
    /\ "paperIds" \in raw.given =>
            ("volume" \in t.given /\ t.volume = Len(raw.paperIds))

\* C19: in every analysis mode, every topic of the reply is returned with its
\* missing members defaulted: novelty = impact = 0.5, trend = stable,
\* paperIds = [] and volume = 0, and with volume = the length of paperIds
\* when it has paperIds.
C19_TopicsDefaultedInEveryMode ==
    Returned =>
        /\ Len(run.result.topics) = Len(run.rawData)
        /\ \A i \in 1..Len(run.rawData) :
                Defaulted(run.rawData[i], run.result.topics[i])

Range(seq) == { seq[i] : i \in 1..Len(seq) }

\* the papers of the input that topic t names and that were published in y
PapersOfTopicIn(t, y) ==
    { i \in 1..Len(run.papers) :
        run.papers[i].id \in Range(t.paperIds) /\ run.papers[i].year = y }

TrendEntries(name, y) ==
    { k \in 1..Len(run.result.trendData) :
        run.result.trendData[k].topic = name /\ run.result.trendData[k].year = y }

\* C20: in strict mode trendData has exactly one {year, topic, count} entry
\* for each (topic, year) pair with at least one paper of the topic published
\* in that year, its count is the number of the topic's papers of that year,
\* and there are no other entries.
C20_OneEntryPerTopicYear ==
    (Returned /\ run.branch = "strict") =>
        /\ \A j \in 1..Len(run.result.topics) : \A y \in { YearOf(i) : i \in 1..2 } :
                LET t == run.result.topics[j] IN
                PapersOfTopicIn(t, y) # {} =>
                    /\ Cardinality(TrendEntries(t.name, y)) = 1
                    /\ \A k \in TrendEntries(t.name, y) :
                            run.result.trendData[k].count
                                = Cardinality(PapersOfTopicIn(t, y))
        /\ \A k \in 1..Len(run.result.trendData) :
                \E j \in 1..Len(run.result.topics) :
                    /\ run.result.topics[j].name = run.result.trendData[k].topic
                    /\ PapersOfTopicIn(run.result.topics[j],
                                       run.result.trendData[k].year) # {}

\* the positions of the returned topics that count as emerging
Emerging ==
    { j \in 1..Len(run.result.topics) :
        run.result.topics[j].trend = "rising" \/ run.result.topics[j].novelty > 80 }

\* the k-th emerging position, in topic order
EmergingAt(k) ==
    CHOOSE j \in Emerging : Cardinality({ i \in Emerging : i <= j }) = k

\* C21: in strict mode emergingTopics has one entry for exactly the normalised
\* topics with trend = rising or novelty > 0.8, in topic order, each with the
\* topic's name and paperIds, potentialScore = its novelty and the fixed
\* reason; novelty of exactly 0.8, or a defaulted 0.5, without a rising trend
\* is left out.
C21_EmergingTopics ==
    (Returned /\ run.branch = "strict") =>
        /\ Len(run.result.emergingTopics) = Cardinality(Emerging)
        /\ \A k \in 1..Len(run.result.emergingTopics) :
            LET e == run.result.emergingTopics[k]
                t == run.result.topics[EmergingAt(k)]
            IN /\ e.name = t.name
               /\ e.potentialScore = t.novelty
               /\ e.paperIds = t.paperIds
               /\ e.reason = "High Density Cluster (Strict Mode)."

\* three topics came back, the second with novelty exactly 0.8 and not rising:
\* the first and the third are the emerging ones, in that order
C21_Witness ==
    /\ Returned /\ run.branch = "strict"
    /\ Len(run.result.topics) = 3
    /\ run.result.topics[2].novelty = 80
    /\ Len(run.result.emergingTopics) = 2
    /\ run.result.emergingTopics[1].name = run.result.topics[1].name
    /\ run.result.emergingTopics[2].name = run.result.topics[3].name

\* the papers of which the text handed to the AI holds at least one character
PapersSent ==
    { run.papersText[i].of : i \in { i \in 1..Len(run.papersText) :
                                        run.papersText[i].of # 0 } }

\* C22: every result, in every mode, carries totalPapersAnalyzed, timestamp
\* and modeUsed, and totalPapersAnalyzed is the number of papers actually sent
\* to the AI after capping and the 300,000-character cut.
C22_TotalIsPapersSent ==
    Returned =>
        /\ {"totalPapersAnalyzed", "timestamp", "modeUsed"} \subseteq run.result.stamped
        /\ run.result.totalPapersAnalyzed = Cardinality(PapersSent)

\* the scope clauses of the two narrowing focuses
BroadClause == "Focus on high-level themes and cross-disciplinary connections."
SpecificClause ==
    "Focus on specific methodologies, molecular mechanisms, and granular details."

HasWords(prompt, s) == \E i \in 1..Len(prompt) : prompt[i].lit = s
OtherFocus(f) == IF f = "broad" THEN "specific" ELSE "broad"

\* C23: the instruction text depends on config.focus: broad and specific each
\* append their own scope clause and balanced appends none, so the text of a
\* request differs from the text of the same request with the other of the
\* two narrowing focuses.
C23_FocusShapesPrompt ==
    Sent =>
        /\ HasWords(run.prompt, BroadClause) <=> run.config.focus = "broad"
        /\ HasWords(run.prompt, SpecificClause) <=> run.config.focus = "specific"
        /\ run.config.focus \in {"broad", "specific"} =>
                run.prompt # Prompt([run EXCEPT !.config.focus =
                                        OtherFocus(run.config.focus)], run.branch)

\* a part that is the percentage n followed by a percent sign
EmbedsPercent(prompt, n) ==
    \E i \in 1..(Len(prompt) - 1) :
        prompt[i] = Num(n) /\ prompt[i + 1].lit \in {"%", "%, Granularity: "}

TitleOnlyNotices ==
    {"HIGH_VOLUME (Titles Only)", "Note: Analyzing Titles Only (High Volume)."}

\* C24: in every mode the instruction text embeds the count of papers and
\* whether title-only mode is active; in the standard and consultant modes it
\* also embeds the creativity and depth percentages of the config.
C24_PromptEmbeds ==
    Sent =>
        /\ \E i \in 1..Len(run.prompt) : run.prompt[i] = Num(Len(run.papersToAnalyze))
        /\ (\E s \in TitleOnlyNotices : HasWords(run.prompt, s)) <=> run.isHighVolume
        /\ run.branch # "strict" =>
                /\ EmbedsPercent(run.prompt, run.config.creativity)
                /\ EmbedsPercent(run.prompt, run.config.depth)

---------------------------------------------------------------------------
(* Claims about the ordering of attempts, checked under SpecRetry *)

\* attempts of p's chain that have started and not yet come back
InFlight(p) ==
    calls[p] - Len(waits[p]) - (IF pc[p] \in {"resolved", "rejected"} THEN 1 ELSE 0)

\* C25: within one callWithRetry chain at most one attempt is in flight at any
\* time; attempt n+1 starts only after attempt n has failed and the backoff
\* wait that follows it has elapsed, and no attempt starts after an attempt
\* has succeeded or failed fatally.
C25_AttemptsAreSequential ==
    [][\A p \in Callers :
        /\ InFlight(p) \in {0, 1}
        /\ calls'[p] # calls[p] =>
            /\ calls'[p] = calls[p] + 1
            /\ pc'[p] = "inflight"
            /\ \/ pc[p] = "idle" /\ calls[p] = 0
               \/ /\ pc[p] = "waiting"
                  /\ InFlight(p) = 0
                  /\ lastErr[p].attempt = calls[p]
                  /\ Len(waits[p]) = calls[p]]_vars

\* the third attempt is in flight after two failures and two waits
C25_Witness ==
    /\ pc[Main] = "inflight"
    /\ calls[Main] = 3
    /\ Len(waits[Main]) = 2
    /\ lastErr[Main].attempt = 2

\* the positions of topic t's paperIds that name a paper of year y among the
\* papers that were sent
SentPapersOfTopicIn(t, y) ==
    { i \in 1..Len(t.paperIds) :
        \E k \in 1..Len(run.papersToAnalyze) :
            /\ run.papersToAnalyze[k].id = t.paperIds[i]
            /\ run.papersToAnalyze[k].year = y }

RECURSIVE CountsFrom(_, _)
CountsFrom(name, k) ==
    IF k > Len(run.result.trendData) THEN 0
    ELSE (IF run.result.trendData[k].topic = name
          THEN run.result.trendData[k].count ELSE 0) + CountsFrom(name, k + 1)

RECURSIVE VolumesFrom(_, _)
VolumesFrom(name, j) ==
    IF j > Len(run.result.topics) THEN 0
    ELSE (IF run.result.topics[j].name = name
          THEN run.result.topics[j].volume ELSE 0) + VolumesFrom(name, j + 1)

\* C28: in strict mode every trendData count only counts papers among those
\* sent to the AI (the first maxPapers of the input): a returned paperId that
\* names an input paper beyond the cap, or no input paper, contributes to no
\* entry, and the counts of a topic sum to at most its volume.
C28_TrendCountsOnlySentPapers ==
    (Returned /\ run.branch = "strict") =>
        /\ \A k \in 1..Len(run.result.trendData) :
                \E j \in 1..Len(run.result.topics) :
                    /\ run.result.topics[j].name = run.result.trendData[k].topic
                    /\ run.result.trendData[k].count
                         = Cardinality(SentPapersOfTopicIn(run.result.topics[j],
                                                           run.result.trendData[k].year))
        /\ \A j \in 1..Len(run.result.topics) :
                CountsFrom(run.result.topics[j].name, 1)
                    <= VolumesFrom(run.result.topics[j].name, 1)

\* the parts of C28 the code keeps: an id that names no input paper
\* contributes nothing, and the counts sum to at most the volume
C28_UnknownIdsAndVolume ==
    (Returned /\ run.branch = "strict") =>
        /\ \A k \in 1..Len(run.result.trendData) :
                \E j \in 1..Len(run.result.topics) :
                    /\ run.result.topics[j].name = run.result.trendData[k].topic
                    /\ run.result.trendData[k].count
                         <= Cardinality(PapersOfTopicIn(run.result.topics[j],
                                                        run.result.trendData[k].year))
                            + Len(run.result.topics[j].paperIds)
                            - Cardinality(Range(run.result.topics[j].paperIds))
        /\ \A j \in 1..Len(run.result.topics) :
                CountsFrom(run.result.topics[j].name, 1)
                    <= VolumesFrom(run.result.topics[j].name, 1)

---------------------------------------------------------------------------
(* Claims about searching, paging and analysing in App, checked under
   SpecApp and SpecAppFair *)

\* C26: every search started by handleSearch eventually clears isSearching,
\* on every path (builder, PMID import, manual, file upload; success, empty
\* or unparsable input, read or parse error).
C26_SearchEventuallyClears ==
    (app.searchReq.stage # "none") ~> ~app.isSearching

\* the paths of C26 that do end: a search that waits for PubMed
C26_NetworkSearchClears ==
    (app.searchReq.stage \in {"search", "details"}) ~> ~app.isSearching

\* C27: whenever analysisResult is non-null it was computed from the paper
\* list currently held in papers: every operation that replaces papers
\* (handleSearch, loadPage, the upload's load) also clears analysisResult, so
\* the paperIds of a topic are resolved against the papers that were analysed.
C27_ResultIsOverCurrentPapers ==
    app.analysisResult.has => app.analysisResult.paperIds = app.papers

\* the part of C27 that handleSearch keeps: it clears analysisResult in the
\* step that empties papers
C27_SearchClearsResult ==
    [][app'.searches # app.searches => ~app'.analysisResult.has]_vars

\* the results view is rendered
ResultsView == app.mode = "SEARCH" /\ (app.papers # <<>> \/ app.totalCount > 0)

\* C29: in the results view, after any sequence of searches, page loads and
\* search-method switches, currentPage is within 1..ceil(totalCount/pageSize)
\* and, whenever totalCount > 0 and no search is in progress, displayPapers
\* for the current page is non-empty.
C29_PageInRangeAndShown ==
    ResultsView =>
        /\ app.currentPage \in 1..PageCount(app.totalCount)
        /\ (app.totalCount > 0 /\ ~app.isSearching) => DisplayPapers # <<>>

\* the part of C29 that holds: the page number stays in range
C29_PageInRange ==
    ResultsView => app.currentPage \in 1..PageCount(app.totalCount)

\* C30: at most one analysis request is in flight at any time: handleAnalyze
\* is only triggered while isAnalyzing is false and analysisResult is null,
\* and isAnalyzing is reset to false after every analysis, whether it
\* succeeded or failed.
C30_OneAnalysisInFlight ==
    [][/\ Len(app'.analysisReqs) <= 1
       /\ Len(app'.analysisReqs) > Len(app.analysisReqs)
            => (~app.isAnalyzing /\ ~app.analysisResult.has)
       /\ Len(app'.analysisReqs) < Len(app.analysisReqs)
            => ~app'.isAnalyzing]_vars

\* an analysis is in flight while the user has gone back and searched again
C30_Witness ==
    /\ Len(app.analysisReqs) = 1
    /\ app.isAnalyzing
    /\ app.mode = "SEARCH"
    /\ app.searches = 2
    /\ app.papers # <<>>

====
